---- MODULE Spec2Model ----
(***************************************************************************)
(* The participation roster bot (src/bot.py, src/utils.py).                *)
(*                                                                         *)
(* State: where the process is (in main() before polling, polling, or     *)
(* ended), whether the database file holds the table `participants`, the   *)
(* rows of that table in rowid order, the AUTOINCREMENT counter of that    *)
(* table, the configured capacity, the bag of handler coroutines suspended *)
(* at an await of a platform call, and what the handler that returned last *)
(* did (its reply, its log_command calls, whether an exception left it).   *)
(*                                                                         *)
(* The bot runs on one asyncio event loop.  The store functions            *)
(* (add_participant, remove_participant, get_participants_count,           *)
(* get_all_participants) are plain `def`s without an await, so each        *)
(* handler runs atomically from one await to the next.  The only awaits    *)
(* that suspend a handler are the platform calls (reply_text,              *)
(* get_chat_member).                                                       *)
(*                                                                         *)
(* Storage errors (sqlite3.Error) and platform API errors are inputs of    *)
(* the environment: every action that touches the store or the platform    *)
(* takes the fault it meets, if any, as a parameter.                       *)
(*                                                                         *)
(* Spec is the bot once it polls: updates dispatched to the handlers.      *)
(* StoreSpec is the store alone, called directly and sequentially on       *)
(* healthy storage, with the calls and their results recorded in hist.     *)
(* BootSpec is the life of the database file over process starts: main()   *)
(* up to run_polling, store calls while the process polls, and restarts.   *)
(* ReplySpec is the bot handling "+", "-" and /clear concurrently on        *)
(* healthy storage, with the text of the last success reply kept in hist.  *)
(***************************************************************************)
EXTENDS Integers, Sequences, FiniteSets, Bags, TLC

VARIABLES process, sqlite_master, MAX_PARTICIPANTS, participants, sqlite_sequence, tasks, done, hist

vars == <<process, sqlite_master, MAX_PARTICIPANTS, participants, sqlite_sequence, tasks, done, hist>>

(* ------------------------------ bounds --------------------------------- *)

\* inserts are dispatched only while the AUTOINCREMENT counter is below this
MaxSeq == 3
\* handlers that may be suspended at an await at the same time
MaxTasks == 2
\* direct store calls recorded by StoreSpec
MaxCalls == 4

(* ------------------------------ inputs --------------------------------- *)

\* the values the configuration may give MAX_PARTICIPANTS
Capacities == {1, 2}

\* (user.id, user.first_name) of the senders: user 2 is seen under two
\* names, and the name "A" under two users
Senders == {<<1, "A">>, <<2, "B">>, <<2, "A">>}

\* the callers of the store in StoreSpec
StoreSenders == Senders \cup {<<3, "C">>}

Users == {s[1] : s \in StoreSenders}

\* member.status as the platform reports it
Statuses == {"creator", "administrator", "member"}

(* ------------------------------ the table ------------------------------ *)

Row(i, u, n) == [id |-> i, user_id |-> u, username |-> n]

\* SELECT COUNT(*) FROM participants
get_participants_count(db) == Len(db)

\* mutant: the scan run from the newest row to the oldest
get_all_participants_newest_first(db) == [i \in 1..Len(db) |-> db[Len(db) + 1 - i].username]

\* SELECT username FROM participants (a table scan, in rowid order)
get_all_participants(db) == [i \in 1..Len(db) |-> db[i].username]

\* SELECT COUNT(*) FROM participants WHERE user_id=?
EntryCount(db, u) == Cardinality({i \in 1..Len(db) : db[i].user_id = u})

\* mutant: ORDER BY id ASC, the oldest entry of the user
FirstIdOf(db, u) ==
    LET ids == {db[i].id : i \in {j \in 1..Len(db) : db[j].user_id = u}}
    IN  IF ids = {} THEN 0 ELSE CHOOSE i \in ids : \A j \in ids : i <= j

\* mutant: the WHERE user_id=? of the subquery lost once the user has a row
LastIdOfAnyUser(db, u) ==
    IF \A i \in 1..Len(db) : db[i].user_id # u THEN 0 ELSE db[Len(db)].id

\* SELECT id FROM participants WHERE user_id=? ORDER BY id DESC LIMIT 1
\* (0 stands for the empty result)
LastIdOf(db, u) ==
    LET ids == {db[i].id : i \in {j \in 1..Len(db) : db[j].user_id = u}}
    IN  IF ids = {} THEN 0 ELSE CHOOSE i \in ids : \A j \in ids : j <= i

\* mutant: UPDATE participants SET user_id = 0 WHERE id = target
MarkDeleted(db, target) ==
    [i \in 1..Len(db) |-> IF db[i].id = target THEN Row(db[i].id, 0, db[i].username) ELSE db[i]]

\* DELETE FROM participants WHERE id = target
DeleteId(db, target) == SelectSeq(db, LAMBDA r : r.id # target)

\* INSERT INTO participants (user_id, username) VALUES (?, ?)
\* AUTOINCREMENT: the new id is one more than the largest id ever used
InsertRow(db, seq, u, n) == Append(db, Row(seq + 1, u, n))

\* faults add_participant can meet: before its try block (the count query or
\* the connection), in the INSERT/commit, in the logging query after commit
AddFaults == {"none", "pre", "insert", "entry_count"}

\* mutant: the capacity check dropped
add_participant_unchecked(db, seq, cap, u, n, f) ==
    IF f = "pre" THEN [db |-> db, seq |-> seq, ret |-> "raise", erred |-> TRUE]
    ELSE IF f = "insert" THEN [db |-> db, seq |-> seq, ret |-> "false", erred |-> TRUE]
    ELSE [db |-> Append(db, Row(seq + 1, u, n)), seq |-> seq + 1,
          ret |-> IF f = "entry_count" THEN "false" ELSE "true",
          erred |-> f = "entry_count"]

\* mutant: the capacity check written with > instead of >=
add_participant_off_by_one(db, seq, cap, u, n, f) ==
    IF f = "pre" THEN [db |-> db, seq |-> seq, ret |-> "raise", erred |-> TRUE]
    ELSE IF Len(db) > cap THEN [db |-> db, seq |-> seq, ret |-> "false", erred |-> FALSE]
    ELSE IF f = "insert" THEN [db |-> db, seq |-> seq, ret |-> "false", erred |-> TRUE]
    ELSE [db |-> Append(db, Row(seq + 1, u, n)), seq |-> seq + 1,
          ret |-> IF f = "entry_count" THEN "false" ELSE "true",
          erred |-> f = "entry_count"]

\* add_participant: the new table, the new counter, what the call returns
\* ("true", "false", or "raise" when the error leaves the function) and
\* whether it met the fault
add_participant(db, seq, cap, u, n, f) ==
    IF f = "pre" THEN [db |-> db, seq |-> seq, ret |-> "raise", erred |-> TRUE]
    ELSE IF get_participants_count(db) >= cap
         THEN [db |-> db, seq |-> seq, ret |-> "false", erred |-> FALSE]
    ELSE IF f = "insert" THEN [db |-> db, seq |-> seq, ret |-> "false", erred |-> TRUE]
    ELSE IF f = "entry_count"
         THEN [db |-> InsertRow(db, seq, u, n), seq |-> seq + 1, ret |-> "false", erred |-> TRUE]
    ELSE [db |-> InsertRow(db, seq, u, n), seq |-> seq + 1, ret |-> "true", erred |-> FALSE]

\* faults remove_participant can meet: the connection (before the try), the
\* SELECT or DELETE/commit, the logging query after the commit
RemoveFaults == {"none", "pre", "delete", "remaining"}

\* mutant: success = cursor.rowcount >= 0
remove_participant_rowcount(db, u, f) ==
    IF f = "pre" THEN [db |-> db, ret |-> "raise", erred |-> TRUE]
    ELSE IF f = "delete" THEN [db |-> db, ret |-> "false", erred |-> TRUE]
    ELSE [db |-> DeleteId(db, LastIdOf(db, u)),
          ret |-> IF f = "remaining" /\ EntryCount(db, u) > 0 THEN "false" ELSE "true",
          erred |-> f = "remaining" /\ EntryCount(db, u) > 0]

\* mutant: DELETE FROM participants WHERE user_id=?
remove_participant_every_entry(db, u, f) ==
    IF f = "pre" THEN [db |-> db, ret |-> "raise", erred |-> TRUE]
    ELSE IF f = "delete" THEN [db |-> db, ret |-> "false", erred |-> TRUE]
    ELSE IF EntryCount(db, u) = 0 THEN [db |-> db, ret |-> "false", erred |-> FALSE]
    ELSE [db |-> SelectSeq(db, LAMBDA r : r.user_id # u), ret |-> "true", erred |-> FALSE]

\* remove_participant: the new table, what the call returns and whether it
\* met the fault
remove_participant(db, u, f) ==
    IF f = "pre" THEN [db |-> db, ret |-> "raise", erred |-> TRUE]
    ELSE IF f = "delete" THEN [db |-> db, ret |-> "false", erred |-> TRUE]
    ELSE LET target == LastIdOf(db, u)
             success == target # 0
             result == EntryCount(db, u) > 0
         IN  IF ~success THEN [db |-> db, ret |-> "false", erred |-> FALSE]
             ELSE IF f = "remaining" /\ result
                  THEN [db |-> DeleteId(db, target), ret |-> "false", erred |-> TRUE]
             ELSE [db |-> DeleteId(db, target), ret |-> "true", erred |-> FALSE]

\* mutant: the DELETE limited to the oldest row
ClearAllOldest(db) == IF db = <<>> THEN db ELSE Tail(db)

\* DELETE FROM participants
ClearAll(db) == <<>>

(* ------------------------------ rendering ----------------------------- *)

\* participant_counts[name] = participant_counts.get(name, 0) + 1, on a
\* dict kept as the sequence of its items in insertion order
CountName(counts, name) ==
    IF \E k \in 1..Len(counts) : counts[k].name = name
    THEN [k \in 1..Len(counts) |->
            IF counts[k].name = name
            THEN [name |-> name, count |-> counts[k].count + 1]
            ELSE counts[k]]
    ELSE Append(counts, [name |-> name, count |-> 1])

\* the dict after `for name in participants`
RECURSIVE participant_counts(_)
participant_counts(names) ==
    IF names = <<>> THEN <<>>
    ELSE CountName(participant_counts(SubSeq(names, 1, Len(names) - 1)), names[Len(names)])

\* one line of the list: the name, and the count of the " (xN)" suffix if
\* the line has one
Entry(name, count) == [name |-> name, suffix |-> IF count > 1 THEN <<count>> ELSE <<>>]

\* the text format_participants_list returns, by its parts: which message
\* it is, the two numbers of the header, the lines under the header
Rendering(text, header, lines) == [text |-> text, header |-> header, lines |-> lines]

\* mutant: one line per entry, nothing grouped
format_participants_list_ungrouped(names, cap) ==
    IF names = <<>> THEN Rendering("list_empty", <<>>, <<>>)
    ELSE Rendering("list", <<Len(names), cap>>,
                   [k \in 1..Len(names) |-> Entry(names[k], 1)])

\* format_participants_list(participants)
format_participants_list(names, cap) ==
    IF names = <<>> THEN Rendering("list_empty", <<>>, <<>>)
    ELSE LET counts == participant_counts(names)
         IN  Rendering("list", <<Len(names), cap>>,
                       [k \in 1..Len(counts) |-> Entry(counts[k].name, counts[k].count)])

(* ------------------------------ the audit log --------------------------- *)

\* utils.log_command: one record appended per call; it never raises
log_command(log, command) == Append(log, command)

(* ------------------------------ handlers ------------------------------- *)

\* A handler coroutine suspended at an await: the handler, whether it has
\* met a storage or platform error, and the platform call it awaits.
Task(kind, erred, pending) == [kind |-> kind, erred |-> erred, pending |-> pending]

\* the suspended coroutines, with a new one / without one that returned
Spawn(t) == tasks (+) SetToBag({t})
Finish(t) == tasks (-) SetToBag({t})

\* What a handler that returned did: whether it met a storage or platform
\* error, the reply the chat received from it ("none": no reply), its
\* log_command calls, and whether an exception left it.
Outcome(kind, erred, reply, log, raised) ==
    [kind |-> kind, erred |-> erred, reply |-> reply, log |-> log, raised |-> raised]

NoOutcome == Outcome("none", FALSE, "none", <<>>, FALSE)

\* handle_message is registered with block=False: it runs as its own task.
NonBlocking == {"+", "-"}

\* The four CommandHandlers block: the next update is processed only when
\* the handler has returned.
CanDispatch ==
    /\ BagCardinality(tasks) < MaxTasks
    /\ \A t \in BagToSet(tasks) : t.kind \in NonBlocking

\* the handlers whose body is inside try/except Exception
InsideTry(kind) == kind \in {"+", "-", "/clear"}

\* mutant: log_command on every branch, under the reply's name
CommandOfEveryReply(reply) == reply

\* the command name each success reply is logged under
CommandOf(reply) ==
    CASE reply = "participated" -> "participate"
      [] reply = "removed" -> "remove"
      [] reply = "list" -> "/list"
      [] reply = "welcome" -> "/start"
      [] reply = "help" -> "/help"
      [] reply = "list_cleared" -> "/clear"
      [] OTHER -> "none"

\* what a handler does once its reply_text returned: the success branches
\* go on to log_command, the others return
AfterReply(t) ==
    LET cmd == CommandOf(t.pending)
    IN  Outcome(t.kind, t.erred, t.pending,
                IF cmd = "none" THEN <<>> ELSE log_command(<<>>, cmd), FALSE)

\* the faults a "+" can meet: those of add_participant, and an error in
\* get_participants_count/get_all_participants after a successful add
PlusFaults == AddFaults \cup {"list"}

\* the reply handle_message chooses for "+"
PlusReply(ret, f) ==
    CASE ret = "raise" -> "error"
      [] ret = "false" -> "list_full"
      [] f = "list" -> "error"
      [] OTHER -> "participated"

\* mutant: the capacity check of the add skipped by the handler
plus_unchecked(s, f) ==
    /\ CanDispatch
    /\ sqlite_sequence < MaxSeq
    /\ LET r == add_participant_unchecked(participants, sqlite_sequence, MAX_PARTICIPANTS, s[1], s[2], f)
       IN  /\ participants' = r.db
           /\ sqlite_sequence' = r.seq
           /\ tasks' = Spawn(Task("+", r.erred \/ (f = "list" /\ r.ret = "true"),
                                   PlusReply(r.ret, f)))
    /\ UNCHANGED <<process, sqlite_master, MAX_PARTICIPANTS, done, hist>>

\* handle_message, text "+", up to its first await: the store and the
\* suspended handler
handle_plus(s, f) ==
    /\ CanDispatch
    /\ sqlite_sequence < MaxSeq
    /\ LET r == add_participant(participants, sqlite_sequence, MAX_PARTICIPANTS, s[1], s[2], f)
       IN  /\ participants' = r.db
           /\ sqlite_sequence' = r.seq
           /\ tasks' = Spawn(Task("+", r.erred \/ (f = "list" /\ r.ret = "true"),
                                   PlusReply(r.ret, f)))

\* handle_message, text "+", up to its first await
plus(s, f) ==
    /\ handle_plus(s, f)
    /\ UNCHANGED <<process, sqlite_master, MAX_PARTICIPANTS, done, hist>>

MinusFaults == RemoveFaults \cup {"list"}

\* the reply handle_message chooses for "-"
MinusReply(ret, f) ==
    CASE ret = "raise" -> "error"
      [] ret = "false" -> "not_in_list"
      [] f = "list" -> "error"
      [] OTHER -> "removed"

\* handle_message, text "-", up to its first await: the store and the
\* suspended handler
handle_minus(u, f) ==
    /\ CanDispatch
    /\ LET r == remove_participant(participants, u, f)
       IN  /\ participants' = r.db
           /\ tasks' = Spawn(Task("-", r.erred \/ (f = "list" /\ r.ret = "true"),
                                   MinusReply(r.ret, f)))

\* handle_message, text "-", up to its first await
minus(u, f) ==
    /\ handle_minus(u, f)
    /\ UNCHANGED <<process, sqlite_master, MAX_PARTICIPANTS, sqlite_sequence, done, hist>>

\* mutant: any other text answered with the help text
other_answered ==
    /\ CanDispatch
    /\ tasks' = Spawn(Task("other", FALSE, "help"))
    /\ UNCHANGED <<process, sqlite_master, MAX_PARTICIPANTS, participants, sqlite_sequence, done, hist>>

\* handle_message, any other text: it is logged for debugging and dropped
other ==
    /\ CanDispatch
    /\ done' = Outcome("other", FALSE, "none", <<>>, FALSE)
    /\ UNCHANGED <<process, sqlite_master, MAX_PARTICIPANTS, participants, sqlite_sequence, tasks, hist>>

\* list_participants_cmd up to its await; nothing in it catches an error
list_participants_cmd(f) ==
    /\ CanDispatch
    /\ IF f = "list"
       THEN /\ done' = Outcome("/list", TRUE, "none", <<>>, TRUE)
            /\ UNCHANGED tasks
       ELSE /\ tasks' = Spawn(Task("/list", FALSE, "list"))
            /\ UNCHANGED done
    /\ UNCHANGED <<process, sqlite_master, MAX_PARTICIPANTS, participants, sqlite_sequence, hist>>

\* start up to its await
start ==
    /\ CanDispatch
    /\ tasks' = Spawn(Task("/start", FALSE, "welcome"))
    /\ UNCHANGED <<process, sqlite_master, MAX_PARTICIPANTS, participants, sqlite_sequence, done, hist>>

\* help_command up to its await
help_command ==
    /\ CanDispatch
    /\ tasks' = Spawn(Task("/help", FALSE, "help"))
    /\ UNCHANGED <<process, sqlite_master, MAX_PARTICIPANTS, participants, sqlite_sequence, done, hist>>

\* clear_command up to `await context.bot.get_chat_member(...)`.  A command
\* update always carries its chat, so the `if not chat` return is not taken.
clear_command ==
    /\ CanDispatch
    /\ tasks' = Spawn(Task("/clear", FALSE, "get_chat_member"))
    /\ UNCHANGED <<process, sqlite_master, MAX_PARTICIPANTS, participants, sqlite_sequence, done, hist>>

\* mutant: only the owner counts as admin
IsAdminCreatorOnly(status) == status = "creator"

\* is_admin = member.status in ['creator', 'administrator']
IsAdmin(status) == status \in {"creator", "administrator"}

\* the faults clear_command can meet once resumed: get_chat_member raised,
\* or the DELETE/commit did
ClearFaults == {"none", "get_chat_member", "delete"}

\* the reply clear_command chooses
ClearReply(status, f) ==
    CASE f = "get_chat_member" -> "error"
      [] ~IsAdmin(status) -> "not_admin"
      [] f = "delete" -> "error"
      [] OTHER -> "list_cleared"

\* clear_command from the return of get_chat_member to the next await
clear_command_resume(t, status, f) ==
    /\ t \in BagToSet(tasks)
    /\ t.pending = "get_chat_member"
    /\ participants' = IF ClearReply(status, f) = "list_cleared"
                       THEN ClearAll(participants) ELSE participants
    /\ tasks' = Finish(t) (+) SetToBag({Task(t.kind, ClearReply(status, f) = "error",
                                                 ClearReply(status, f))})
    /\ UNCHANGED <<process, sqlite_master, MAX_PARTICIPANTS, sqlite_sequence, done, hist>>

Replies == {"participated", "list_full", "removed", "not_in_list", "list",
            "welcome", "help", "not_admin", "list_cleared", "error"}

\* an awaited reply_text returns: the handler runs to its end
reply_sent(t) ==
    /\ t \in BagToSet(tasks)
    /\ t.pending \in Replies
    /\ done' = AfterReply(t)
    /\ tasks' = Finish(t)
    /\ UNCHANGED <<process, sqlite_master, MAX_PARTICIPANTS, participants, sqlite_sequence, hist>>

\* an awaited reply_text raises a platform error: inside a try block the
\* except clause replies RESPONSES['error']; an error raised by that reply,
\* or outside any try block, leaves the handler
reply_failed(t) ==
    /\ t \in BagToSet(tasks)
    /\ t.pending \in Replies
    /\ IF InsideTry(t.kind) /\ t.pending # "error"
       THEN /\ tasks' = Finish(t) (+) SetToBag({Task(t.kind, TRUE, "error")})
            /\ UNCHANGED done
       ELSE /\ done' = Outcome(t.kind, TRUE, "none", <<>>, TRUE)
            /\ tasks' = Finish(t)
    /\ UNCHANGED <<process, sqlite_master, MAX_PARTICIPANTS, participants, sqlite_sequence, hist>>

\* clear_list, the job callback: DELETE and commit, then the announcement.
\* A sqlite3.Error is caught and logged.
clear_list(f) ==
    /\ participants' = IF f = "none" THEN ClearAll(participants) ELSE participants
    /\ UNCHANGED <<process, sqlite_master, MAX_PARTICIPANTS, sqlite_sequence, tasks, done, hist>>

(* --------------------------- the specification ------------------------- *)

\* after main(): setup_database has dropped and recreated the table, and
\* the application polls
Init ==
    /\ process = "run_polling"
    /\ sqlite_master = TRUE
    /\ MAX_PARTICIPANTS \in Capacities
    /\ participants = <<>>
    /\ sqlite_sequence = 0
    /\ tasks = EmptyBag
    /\ done = NoOutcome
    /\ hist = <<>>

Next ==
    \/ \E s \in Senders, f \in PlusFaults : plus(s, f)
    \/ \E s \in Senders, f \in MinusFaults : minus(s[1], f)
    \/ other
    \/ \E f \in {"none", "list"} : list_participants_cmd(f)
    \/ start
    \/ help_command
    \/ clear_command
    \/ \E t \in BagToSet(tasks), st \in Statuses, f \in ClearFaults : clear_command_resume(t, st, f)
    \/ \E t \in BagToSet(tasks) : reply_sent(t)
    \/ \E t \in BagToSet(tasks) : reply_failed(t)
    \/ \E f \in {"none", "delete"} : clear_list(f)

Spec == Init /\ [][Next]_vars

(* ------------------- the store alone, called directly ------------------ *)

\* one call of the store: the operation, its arguments, what it returned,
\* and the table before and after it
Call(op, user, name, ret, pre, post) ==
    [op |-> op, user |-> user, name |-> name, ret |-> ret, pre |-> pre, post |-> post]

\* add_participant(user_id, username), storage healthy
Add(s) ==
    /\ Len(hist) < MaxCalls
    /\ LET r == add_participant(participants, sqlite_sequence, MAX_PARTICIPANTS, s[1], s[2], "none")
       IN  /\ participants' = r.db
           /\ sqlite_sequence' = r.seq
           /\ hist' = Append(hist, Call("Add", s[1], s[2], r.ret, participants, r.db))
    /\ UNCHANGED <<process, sqlite_master, MAX_PARTICIPANTS, tasks, done>>

\* remove_participant(user_id), storage healthy
RemoveOne(u) ==
    /\ Len(hist) < MaxCalls
    /\ LET r == remove_participant(participants, u, "none")
       IN  /\ participants' = r.db
           /\ hist' = Append(hist, Call("RemoveOne", u, "", r.ret, participants, r.db))
    /\ UNCHANGED <<process, sqlite_master, MAX_PARTICIPANTS, sqlite_sequence, tasks, done>>

\* DELETE FROM participants, as clear_list and clear_command run it
Clear ==
    /\ Len(hist) < MaxCalls
    /\ participants' = ClearAll(participants)
    /\ hist' = Append(hist, Call("ClearAll", 0, "", "none", participants, ClearAll(participants)))
    /\ UNCHANGED <<process, sqlite_master, MAX_PARTICIPANTS, sqlite_sequence, tasks, done>>

StoreNext ==
    \/ \E s \in StoreSenders : Add(s)
    \/ \E u \in Users : RemoveOne(u)
    \/ Clear

\* the capacities StoreSpec is run with
StoreCapacities == {1, 2, 3}

StoreInit ==
    /\ process = "run_polling"
    /\ sqlite_master = TRUE
    /\ MAX_PARTICIPANTS \in StoreCapacities
    /\ participants = <<>>
    /\ sqlite_sequence = 0
    /\ tasks = EmptyBag
    /\ done = NoOutcome
    /\ hist = <<>>

StoreSpec == StoreInit /\ [][StoreNext]_vars

(* ------------------- the text of the success replies ------------------ *)

\* the text of a success reply of "+" or "-": the template, the count put
\* into it, the list under it
Text(template, count, list_message) ==
    [template |-> template, count |-> count, list_message |-> list_message]

\* mutant: the count queried before the add or remove
ReplyTextCountBefore(template, before, db, cap) ==
    Text(template, get_participants_count(before),
         format_participants_list(get_all_participants(db), cap))

\* count = get_participants_count(); participants = get_all_participants();
\* list_message = format_participants_list(participants): the queries the
\* handler makes after its add or remove, with no await up to reply_text
\* (before: the table the handler found, db: the table it left)
ReplyText(template, before, db, cap) ==
    Text(template, get_participants_count(db),
         format_participants_list(get_all_participants(db), cap))

\* a "+" of a healthy run, with the text of its success reply kept
participate(s) ==
    /\ handle_plus(s, "none")
    /\ hist' = IF participants' # participants
               THEN <<ReplyText("participated", participants, participants', MAX_PARTICIPANTS)>>
               ELSE hist
    /\ UNCHANGED <<process, sqlite_master, MAX_PARTICIPANTS, done>>

\* a "-" of a healthy run, with the text of its success reply kept
leave(u) ==
    /\ handle_minus(u, "none")
    /\ hist' = IF participants' # participants
               THEN <<ReplyText("removed", participants, participants', MAX_PARTICIPANTS)>>
               ELSE hist
    /\ UNCHANGED <<process, sqlite_master, MAX_PARTICIPANTS, sqlite_sequence, done>>

\* "+", "-" and /clear handled concurrently, storage and platform healthy;
\* hist holds the text of the success reply composed last
ReplyNext ==
    \/ \E s \in Senders : participate(s)
    \/ \E s \in Senders : leave(s[1])
    \/ clear_command
    \/ \E t \in BagToSet(tasks), st \in Statuses : clear_command_resume(t, st, "none")
    \/ \E t \in BagToSet(tasks) : reply_sent(t)

ReplySpec == Init /\ [][ReplyNext]_vars

(* ----------------- the database file over process starts -------------- *)

\* the storage errors setup_database can meet: in sqlite3.connect, in the
\* DROP TABLE, in the CREATE TABLE
SetupFaults == {"none", "connect", "drop", "create"}

\* mutant: the DROP TABLE left out, CREATE TABLE IF NOT EXISTS
setup_database_keep_table(f) ==
    /\ sqlite_master' = IF f \in {"connect", "drop"} THEN sqlite_master ELSE f = "none" \/ sqlite_master
    /\ UNCHANGED <<participants, sqlite_sequence>>

\* setup_database, what it does to the database file.  DROP TABLE and
\* CREATE TABLE take effect as they are executed (the sqlite3 module opens
\* no transaction for DDL); dropping the table drops its AUTOINCREMENT
\* counter.  A sqlite3.Error is logged in the except clause.
setup_database(f) ==
    /\ sqlite_master' = IF f \in {"connect", "drop"} THEN sqlite_master ELSE f = "none"
    /\ participants' = IF f \in {"connect", "drop"} THEN participants ELSE <<>>
    /\ sqlite_sequence' = IF f \in {"connect", "drop"} THEN sqlite_sequence ELSE 0

\* whether an exception leaves setup_database: when sqlite3.connect raised,
\* `conn` is unbound in the finally clause and `if conn:` raises
\* UnboundLocalError, which nothing catches
SetupRaises(f) == f = "connect"

\* the values BOT_TOKEN can have: set or empty
Tokens == {"token", ""}

\* main() up to run_polling: keep_alive, setup_database, the BOT_TOKEN
\* check, the handlers registered
main(f, token) ==
    /\ process = "main"
    /\ setup_database(f)
    /\ process' = IF SetupRaises(f) THEN "raised"
                  ELSE IF token = "" THEN "returned"
                  ELSE "run_polling"
    /\ UNCHANGED <<MAX_PARTICIPANTS, tasks, done, hist>>

\* the process ends (or has ended) and is started again: the database file
\* is all that is left of the previous run
restart ==
    /\ process # "main"
    /\ process' = "main"
    /\ tasks' = EmptyBag
    /\ done' = NoOutcome
    /\ UNCHANGED <<sqlite_master, MAX_PARTICIPANTS, participants, sqlite_sequence, hist>>

\* the store is called only while the process polls; the calls recorded are
\* those that find the table
Polling == process = "run_polling" /\ sqlite_master

\* the first start of the process: no database file yet
BootInit ==
    /\ process = "main"
    /\ sqlite_master = FALSE
    /\ MAX_PARTICIPANTS \in Capacities
    /\ participants = <<>>
    /\ sqlite_sequence = 0
    /\ tasks = EmptyBag
    /\ done = NoOutcome
    /\ hist = <<>>

BootNext ==
    \/ \E f \in SetupFaults, token \in Tokens : main(f, token)
    \/ restart
    \/ \E s \in Senders : Polling /\ Add(s)
    \/ \E s \in Senders : Polling /\ RemoveOne(s[1])
    \/ Polling /\ Clear

BootSpec == BootInit /\ [][BootNext]_vars

(* ------------------------------- claims -------------------------------- *)

\* the spec's names of the store queries
Count(db) == get_participants_count(db)
ListAll(db) == get_all_participants(db)

\* C1: in every reachable state the number of entries is at most
\* MAX_PARTICIPANTS.
C1_CountWithinCapacity == Count(participants) <= MAX_PARTICIPANTS

\* the roster is full and a further "+" has been turned away
C1_Witness ==
    /\ MAX_PARTICIPANTS = 2
    /\ Count(participants) = 2
    /\ BagIn(Task("+", FALSE, "list_full"), tasks)

\* C2: an Add called while Count() >= MAX_PARTICIPANTS returns false and
\* leaves the table (ids, user_ids, names, order) as it was.
C2_AddAtCapacityRejected ==
    \A k \in 1..Len(hist) :
        (hist[k].op = "Add" /\ Count(hist[k].pre) >= MAX_PARTICIPANTS)
            => (hist[k].ret = "false" /\ hist[k].post = hist[k].pre)

\* an Add was called on a full roster
C2_Witness ==
    \E k \in 1..Len(hist) :
        /\ hist[k].op = "Add"
        /\ Count(hist[k].pre) >= MAX_PARTICIPANTS
        /\ hist[k].ret = "false"

\* C3: a RemoveOne(u) called while u has an entry returns true and deletes
\* exactly the entry with the highest id among u's entries; every other
\* entry stays, in place.
C3_RemoveOneDeletesNewest ==
    \A k \in 1..Len(hist) :
        (hist[k].op = "RemoveOne" /\ \E j \in 1..Len(hist[k].pre) : hist[k].pre[j].user_id = hist[k].user)
            => /\ hist[k].ret = "true"
               /\ \E j \in 1..Len(hist[k].pre) :
                    /\ hist[k].pre[j].user_id = hist[k].user
                    /\ \A m \in 1..Len(hist[k].pre) :
                         hist[k].pre[m].user_id = hist[k].user => hist[k].pre[m].id <= hist[k].pre[j].id
                    /\ Len(hist[k].post) = Len(hist[k].pre) - 1
                    /\ \A m \in 1..Len(hist[k].post) :
                         hist[k].post[m] = hist[k].pre[IF m < j THEN m ELSE m + 1]

\* a RemoveOne(u) ran while u held two entries, the older one placed before
\* an entry of another user
C3_Witness ==
    \E k \in 1..Len(hist) :
        /\ hist[k].op = "RemoveOne"
        /\ hist[k].ret = "true"
        /\ Len(hist[k].pre) = 3
        /\ hist[k].pre[1].user_id = hist[k].user
        /\ hist[k].pre[2].user_id # hist[k].user
        /\ hist[k].pre[3].user_id = hist[k].user
        /\ hist[k].post = <<hist[k].pre[1], hist[k].pre[2]>>

\* C4: a RemoveOne(u) called while no entry is u's returns false and leaves
\* the table as it was, whatever the other users hold.
C4_RemoveOneAbsentUser ==
    \A k \in 1..Len(hist) :
        (hist[k].op = "RemoveOne" /\ \A j \in 1..Len(hist[k].pre) : hist[k].pre[j].user_id # hist[k].user)
            => (hist[k].ret = "false" /\ hist[k].post = hist[k].pre)

\* a RemoveOne(u) ran while only other users held entries
C4_Witness ==
    \E k \in 1..Len(hist) :
        /\ hist[k].op = "RemoveOne"
        /\ Len(hist[k].pre) >= 1
        /\ \A j \in 1..Len(hist[k].pre) : hist[k].pre[j].user_id # hist[k].user
        /\ hist[k].ret = "false"

\* the roles the spec lets clear the roster, as member.status values
AdminOrOwner == {"administrator", "creator"}

\* C5: right after the DELETE of a clear, on the admin /clear path or in
\* clear_list, Count() is 0 and ListAll() is the empty sequence.
C5_ClearEmptiesRoster ==
    [][((\E t \in BagToSet(tasks), st \in AdminOrOwner : clear_command_resume(t, st, "none"))
            \/ clear_list("none"))
        => (Count(participants') = 0 /\ ListAll(participants') = <<>>)]_vars

\* an admin's /clear has returned, the roster is empty, and a "+" that had
\* added its sender before the /clear still awaits its reply
C5_Witness ==
    /\ done = Outcome("/clear", FALSE, "list_cleared", <<"/clear">>, FALSE)
    /\ participants = <<>>
    /\ tasks = SetToBag({Task("+", FALSE, "participated")})

\* C6: when /clear resumes with the caller's role, a caller who is neither
\* administrator nor creator leaves the roster unchanged and is answered
\* 'not admin'; an administrator or creator empties the roster and is
\* answered 'list cleared'.  (A failed role lookup gives no role; a failed
\* DELETE is a storage error.)
C6_ClearOnlyForAdmins ==
    [][\A t \in BagToSet(tasks), st \in Statuses, f \in ClearFaults :
         clear_command_resume(t, st, f)
            => /\ (st \notin AdminOrOwner \/ f # "none") => participants' = participants
               /\ (st \notin AdminOrOwner /\ f # "get_chat_member")
                     => BagIn(Task("/clear", FALSE, "not_admin"), tasks')
               /\ (st \in AdminOrOwner /\ f = "none")
                     => /\ participants' = <<>>
                        /\ BagIn(Task("/clear", FALSE, "list_cleared"), tasks')]_vars

\* a /clear of a non-admin has returned with the 'not admin' reply while
\* the roster holds entries
C6_Witness ==
    /\ done = Outcome("/clear", FALSE, "not_admin", <<>>, FALSE)
    /\ Count(participants) >= 1

\* the calls of the scenario of C7, what each returns and Count() after it
Scenario ==
    <<[op |-> "Add", user |-> 1, name |-> "A", ret |-> "true", count |-> 1],
      [op |-> "Add", user |-> 2, name |-> "B", ret |-> "true", count |-> 2],
      [op |-> "Add", user |-> 3, name |-> "C", ret |-> "false", count |-> 2],
      [op |-> "RemoveOne", user |-> 1, name |-> "", ret |-> "true", count |-> 1]>>

\* the first k calls made on the store are the first k calls of the scenario
Follows(k) ==
    /\ Len(hist) >= k
    /\ \A j \in 1..k :
         /\ hist[j].op = Scenario[j].op
         /\ hist[j].user = Scenario[j].user
         /\ hist[j].name = Scenario[j].name

\* C7: with capacity 2, Add(1,"A"), Add(2,"B"), Add(3,"C"), RemoveOne(1) on
\* the empty roster return true, true, false, true, with Count() 1, 2, 2, 1
\* after them, and ListAll() is <<"B">> at the end.
C7_Scenario ==
    \A k \in 1..Len(Scenario) :
        (MAX_PARTICIPANTS = 2 /\ Follows(k))
            => /\ hist[k].ret = Scenario[k].ret
               /\ Count(hist[k].post) = Scenario[k].count
               /\ (k = Len(Scenario) => ListAll(hist[k].post) = <<"B">>)

\* the four calls of the scenario have been made with capacity 2
C7_Witness == MAX_PARTICIPANTS = 2 /\ Follows(Len(Scenario)) /\ ListAll(participants) = <<"B">>

\* the messages the handlers act on
Handled == {"+", "-", "/start", "/help", "/list", "/clear"}

\* the replies of the success branches
SuccessReplies == {"participated", "removed", "list", "welcome", "help", "list_cleared"}

\* C8, as stated, on the runs that meet no storage or platform error: every
\* handled message, on its success branch and on its failure branches
\* alike, results in exactly one call of log_command.
C8_OneRecordPerCommand ==
    (done.kind \in Handled /\ ~done.erred) => Len(done.log) = 1

\* C8, amended: a handled message results in one call of log_command when
\* its success reply was sent, and in none otherwise.
C8_OneRecordPerSuccess ==
    done.kind \in Handled =>
        IF done.reply \in SuccessReplies THEN Len(done.log) = 1 ELSE done.log = <<>>

\* a "-" has returned on its 'not in list' branch and a "+" on a full roster
\* awaits its 'list full' reply, neither having met an error
C8_Witness ==
    /\ done = Outcome("-", FALSE, "not_in_list", <<>>, FALSE)
    /\ BagIn(Task("+", FALSE, "list_full"), tasks)

\* C9: a handler of '+', '-', /list or /clear that meets a storage or
\* platform error answers with the generic error reply, and the error does
\* not leave the handler.
C9_ErrorsCaughtInHandler ==
    (done.kind \in {"+", "-", "/list", "/clear"} /\ done.erred)
        => (done.reply = "error" /\ ~done.raised)

\* C10: handle_message answers 'list full' only if the roster was at
\* capacity when add_participant checked it, and 'not in list' only if the
\* sender held no entry.
C10_SpecificRepliesOnlyForValidation ==
    [][/\ \A s \in Senders, f \in PlusFaults :
            (plus(s, f) /\ \E e \in BOOLEAN : tasks' = Spawn(Task("+", e, "list_full")))
                => Count(participants) >= MAX_PARTICIPANTS
       /\ \A s \in Senders, f \in MinusFaults :
            (minus(s[1], f) /\ \E e \in BOOLEAN : tasks' = Spawn(Task("-", e, "not_in_list")))
                => (\A j \in 1..Len(participants) : participants[j].user_id # s[1])]_vars

\* C11: after any sequence of Add, RemoveOne and ClearAll, ListAll() has one
\* element per entry of the roster, and its i-th element is the
\* display_name of the entry with the i-th smallest id.
C11_ListAllInIdOrder ==
    /\ Len(ListAll(participants)) = Count(participants)
    /\ \A i \in 1..Count(participants) :
         \E j \in 1..Len(participants) :
            /\ Cardinality({m \in 1..Len(participants) :
                               participants[m].id < participants[j].id}) = i - 1
            /\ ListAll(participants)[i] = participants[j].username

\* after an Add, a RemoveOne that deleted an entry and a further Add, the
\* roster holds two entries of the same name with ids 1 and 3
C11_Witness ==
    /\ \E k \in 1..Len(hist) : hist[k].op = "RemoveOne" /\ hist[k].ret = "true"
    /\ Len(participants) = 2
    /\ participants[1].id = 1
    /\ participants[2].id = 3
    /\ participants[1].user_id # participants[2].user_id
    /\ ListAll(participants) = <<"A", "A">>

\* the roster as the chat sees it
Rendered == format_participants_list(ListAll(participants), MAX_PARTICIPANTS)

\* how many entries of the roster carry this display_name
Occurrences(name) == Cardinality({j \in 1..Len(participants) : participants[j].username = name})

\* C12: the rendering of the empty roster is the 'empty' message; that of
\* a non-empty roster has a header with the number of entries and the
\* capacity, and one line per distinct display_name, whatever the user_ids,
\* with the suffix (xN) exactly when the name occurs N > 1 times; two
\* entries named "A" of different users render as the one line "A (x2)".
C12_RenderingGroupsByName ==
    IF participants = <<>>
    THEN Rendered = Rendering("list_empty", <<>>, <<>>)
    ELSE /\ Rendered.text = "list"
         /\ Rendered.header = <<Count(participants), MAX_PARTICIPANTS>>
         /\ \A j \in 1..Len(participants) :
               Cardinality({k \in 1..Len(Rendered.lines) :
                              Rendered.lines[k].name = participants[j].username}) = 1
         /\ \A k \in 1..Len(Rendered.lines) :
               /\ Occurrences(Rendered.lines[k].name) >= 1
               /\ Rendered.lines[k].suffix =
                     IF Occurrences(Rendered.lines[k].name) > 1
                     THEN <<Occurrences(Rendered.lines[k].name)>> ELSE <<>>
         /\ (/\ Len(participants) = 2
             /\ participants[1].username = "A"
             /\ participants[2].username = "A"
             /\ participants[1].user_id # participants[2].user_id)
               => Rendered.lines = <<Entry("A", 2)>>

\* the roster holds an entry named "A" of user 1, one of user 2, and an
\* entry named "B" between them: two lines are rendered, "A (x2)" first
C12_Witness ==
    /\ Len(participants) = 3
    /\ participants[1].username = "A"
    /\ participants[3].username = "A"
    /\ participants[1].user_id # participants[3].user_id
    /\ Rendered = Rendering("list", <<3, 3>>, <<Entry("A", 2), Entry("B", 1)>>)

\* C13, as stated: when a "+" that found Count() = MAX_PARTICIPANTS - 1 has
\* passed the check and is still being handled, a second "+" can pass the
\* check too and insert, taking Count() above MAX_PARTICIPANTS.  (With one
\* handler in flight and none returned yet, the roster is at capacity only
\* if that handler's insert filled the last place.)
C13_ConcurrentAddsBothInsert ==
    (/\ tasks = SetToBag({Task("+", FALSE, "participated")})
     /\ done = NoOutcome
     /\ Count(participants) = MAX_PARTICIPANTS)
        => ENABLED (\E s \in Senders :
                      plus(s, "none") /\ Count(participants') > MAX_PARTICIPANTS)

\* C13, amended: the capacity check and the insert of a "+" are one step.
\* A "+" inserts only if the roster it inserts into is below capacity, and
\* a "+" that finds the roster at capacity, other handlers in flight or
\* not, inserts nothing and is answered 'list full'.
C13_CheckAndInsertAtomic ==
    [][\A s \in Senders, f \in PlusFaults :
         plus(s, f)
            => /\ participants' # participants
                     => /\ Count(participants) < MAX_PARTICIPANTS
                        /\ Count(participants') <= MAX_PARTICIPANTS
               /\ (Count(participants) >= MAX_PARTICIPANTS /\ f # "pre")
                     => /\ participants' = participants
                        /\ tasks' = Spawn(Task("+", FALSE, "list_full"))]_vars

\* two "+" are in flight and no handler has returned yet: the first took
\* the last place, the second was turned away
C13_Witness ==
    /\ done = NoOutcome
    /\ tasks = SetToBag({Task("+", FALSE, "participated"), Task("+", FALSE, "list_full")})
    /\ Count(participants) = MAX_PARTICIPANTS

\* C14: if setup_database fails, on the connection, the DROP TABLE or the
\* CREATE TABLE, main() does not register the handlers and start polling.
C14_SetupFailureAbortsStartup ==
    [][\A f \in SetupFaults \ {"none"}, token \in Tokens :
         main(f, token) => process' # "run_polling"]_vars

\* C17: when main() has initialized the storage and gone on to polling,
\* the roster is empty, Count() = 0, whatever the table held from the
\* previous run.
C17_RosterResetOnStart ==
    [][\A token \in Tokens :
         (main("none", token) /\ process' = "run_polling")
            => (sqlite_master' /\ Count(participants') = 0)]_vars

\* the process polls on an empty roster, no call made on the store since
\* the call of a previous run that left entries in the table
C17_Witness ==
    /\ process = "run_polling"
    /\ sqlite_master
    /\ hist # <<>>
    /\ Count(hist[Len(hist)].post) >= 1
    /\ Count(participants) = 0

\* C15: a text that is neither "+" nor "-" is ignored: its handler returns
\* at once, having sent no reply and called log_command not at all; the
\* roster and the handlers in flight are as before.
C15_OtherTextIgnored ==
    [][other => /\ done' = Outcome("other", FALSE, "none", <<>>, FALSE)
                /\ tasks' = tasks
                /\ participants' = participants
                /\ sqlite_sequence' = sqlite_sequence]_vars

\* another text has been handled while the roster holds an entry and a "+"
\* awaits its reply
C15_Witness ==
    /\ done = Outcome("other", FALSE, "none", <<>>, FALSE)
    /\ Count(participants) >= 1
    /\ BagIn(Task("+", FALSE, "participated"), tasks)

\* the table after is the table before with one row of a new id added
Inserted(before, after) ==
    \E r \in {after[i] : i \in 1..Len(after)} :
        /\ after = Append(before, r)
        /\ \A i \in 1..Len(before) : before[i].id # r.id

\* the table after is the table before without one of its rows
DeletedOne(before, after) ==
    \E j \in 1..Len(before) :
        after = [i \in 1..(Len(before) - 1) |-> before[IF i < j THEN i ELSE i + 1]]

\* C16: every step that changes the roster inserts one new entry, deletes
\* one entry or deletes all entries, and an entry that is in the roster
\* before and after the step has the same id, user_id and display_name.
C16_NoUpdateInPlace ==
    [][participants' # participants
        => /\ \/ Inserted(participants, participants')
              \/ DeletedOne(participants, participants')
              \/ participants' = <<>>
           /\ \A i \in 1..Len(participants), j \in 1..Len(participants') :
                 participants[i].id = participants'[j].id => participants[i] = participants'[j]]_vars

\* the roster after two inserts, the deletion of the second entry and a
\* third insert: the first entry is as it was inserted
C16_Witness ==
    /\ process = "run_polling"
    /\ Len(participants) = 2
    /\ participants[1] = Row(1, 1, "A")
    /\ participants[2].id = 3
    /\ participants[2].user_id = 2

\* the roster as the sequence of (user_id, display_name) in id order
Entries(db) == [i \in 1..Len(db) |-> <<db[i].user_id, db[i].username>>]

\* C19: when an Add(u, name) that returned true is followed at once by
\* RemoveOne(u), the RemoveOne returns true and the sequence of
\* (user_id, display_name) is the one before the Add, whether or not u held
\* entries already.
C19_AddThenRemoveRestores ==
    \A k \in 1..(Len(hist) - 1) :
        (/\ hist[k].op = "Add"
         /\ hist[k].ret = "true"
         /\ hist[k + 1].op = "RemoveOne"
         /\ hist[k + 1].user = hist[k].user)
            => /\ hist[k + 1].ret = "true"
               /\ Entries(hist[k + 1].post) = Entries(hist[k].pre)

\* an Add(u, name) and the RemoveOne(u) after it have run on a roster where
\* u held an entry under another name, followed by an entry of another user
C19_Witness ==
    \E k \in 1..(Len(hist) - 1) :
        /\ hist[k].op = "Add"
        /\ hist[k].ret = "true"
        /\ hist[k + 1].op = "RemoveOne"
        /\ hist[k + 1].user = hist[k].user
        /\ Len(hist[k].pre) = 2
        /\ hist[k].pre[1].user_id = hist[k].user
        /\ hist[k].pre[1].username # hist[k].name
        /\ hist[k].pre[2].user_id # hist[k].user
        /\ Entries(participants) = Entries(hist[k].pre)

\* the number of entries a list shows: a line stands for one entry, or for
\* the N of its suffix
RECURSIVE EntriesRendered(_)
EntriesRendered(lines) ==
    IF lines = <<>> THEN 0
    ELSE (IF Head(lines).suffix = <<>> THEN 1 ELSE Head(lines).suffix[1])
            + EntriesRendered(Tail(lines))

\* the count of the template, the total of the header and the entries
\* rendered are those of this table
Describes(text, db) ==
    /\ text.count = Count(db)
    /\ EntriesRendered(text.list_message.lines) = Count(db)
    /\ IF db = <<>>
       THEN text.list_message.text = "list_empty"
       ELSE text.list_message.header = <<Count(db), MAX_PARTICIPANTS>>

\* C18: the text of a success reply of "+" or "-" has, as the count of its
\* template, as the total of its header and as the number of entries it
\* renders, those of the roster right after that message's own add or
\* remove, whatever other "+", "-" and /clear are in flight.
C18_ReplyDescribesOwnState ==
    [][((\E s \in Senders : participate(s) \/ leave(s[1])) /\ participants' # participants)
        => /\ hist' # <<>>
           /\ hist'[1].template \in {"participated", "removed"}
           /\ Describes(hist'[1], participants')]_vars

\* a "+" composed its reply for a roster of two entries while an earlier
\* "+" awaited its reply; that one has returned since and an admin's /clear
\* has emptied the roster, the reply of the second "+" yet to be sent
C18_Witness ==
    /\ hist = <<Text("participated", 2, Rendering("list", <<2, 2>>, <<Entry("A", 2)>>))>>
    /\ done = Outcome("+", FALSE, "participated", <<"participate">>, FALSE)
    /\ tasks = SetToBag({Task("+", FALSE, "participated"), Task("/clear", FALSE, "list_cleared")})
    /\ participants = <<>>

====
